---------------------------- MODULE Spec2Model ----------------------------
(***************************************************************************)
(* Model of pydantic-exportables: the record contract (JSONExportable),    *)
(* the keyed collection (JSONExportableRootDict), the dump parameter       *)
(* helper (_export_helper) and the streaming exporters (export_csv,        *)
(* export_json, export_txt, export).                                       *)
(*                                                                         *)
(* The state machines share the variables below; each specification       *)
(* moves its own variables and leaves the others at their initial value.   *)
(*   SpecMerge   record.update(new, match_index)                           *)
(*   SpecColl    collection.add / collection.update                        *)
(*   SpecDump    obj_db / obj_src / json_db / json_src                     *)
(*   SpecExport  export / export_csv / export_json / export_txt            *)
(*   SpecRead    from_objs / from_obj / transform                           *)
(*   SpecRow     csv_row / _clear_None                                      *)
(*   SpecKeyed   collection add / c[k] = r / del c[k] / update / json views *)
(***************************************************************************)
EXTENDS Integers, Sequences, FiniteSets, TLC

VARIABLES
    heap,       \* object store: reference -> record instance
    coll,       \* collection name -> (key -> reference), the root dicts
    last,       \* the last record/collection call: arguments, result, state before
    nops,       \* number of record/collection calls made so far
    policy,     \* class-level include/exclude dicts of the record type
    dump,       \* the last dump call: arguments and result
    fs,         \* file system: name -> [kind, content] for the names that exist
    stdout,     \* standard output: the lines printed
    exp         \* the export call: its arguments, position, counters and result

recVars == <<heap, coll, last, nops>>
dumpVars == <<policy, dump>>
expVars == <<fs, stdout, exp>>
vars == <<heap, coll, last, nops, policy, dump, fs, stdout, exp>>

---------------------------------------------------------------------------
(* Bounds *)

\* largest index value an instance is constructed with (0 is the default)
MaxId == 2
\* number of record/collection calls explored in one behaviour
MaxOps == 1
\* largest number of records in the sequence handed to an export call
MaxLen == 3
\* largest number of raw objects handed to from_objs
MaxRaw == 2
\* largest number of columns of a CSV row
MaxCols == 2
\* number of calls made on the collections X, Y, Z in one behaviour
MaxCalls == 4

---------------------------------------------------------------------------
(* Records: instances of two JSONExportable subclasses.                    *)
(*   "Keyed" overrides index (returns the id field);                       *)
(*   "Plain" keeps the base class index, which raises NotImplementedError. *)
(* Fields: id (int, default 0), x (bool, default FALSE),                   *)
(* child (Optional nested record, default None).                           *)
(* A child value is <<>> for None and <<r>> for a reference to object r.   *)

Fields == {"id", "x", "child"}
NoChild == <<>>
Ids == 1..MaxId

\* the instance a constructor call without arguments builds
DefaultRec(t) == [typ |-> t, id |-> 0, x |-> FALSE, child |-> NoChild, fset |-> {}]

\* model_fields_set
ModelFieldsSet(o) == o.fset

\* isinstance(value, JSONExportable) for the value of field key
IsRec(key, value) == key = "child" /\ value # NoChild

\* whether the type of o overrides the index property
HasIndex(o) == o.typ = "Keyed"

\* the index property of a type that overrides it
Index(o) == o.id

\* _set_skip_validation for a plain field: store the value, mark the field set
SetSkipValidation(h, self, name, value) ==
    [h EXCEPT ![self] = [@ EXCEPT ![name] = value, !.fset = @ \cup {name}]]

\* every order in which a Python set with these members may be iterated
Orders(S) ==
    { s \in [1..Cardinality(S) -> S] : \A i, j \in 1..Cardinality(S) : i # j => s[i] # s[j] }

(* JSONExportable.update: the set of outcomes [h, ret, exc] of                 *)
(* self.update(new, match_index) on heap h, one per iteration order of         *)
(* new.model_fields_set.  exc = TRUE: NotImplementedError left the call.       *)
RECURSIVE Update(_, _, _, _)
RECURSIVE UpdateLoop(_, _, _, _, _, _, _)

\* (a variant that overwrites a nested record instead of merging into it)
UpdateLoopNoRecurse(h, self, new, mi, ord, i, updated) ==
    IF i > Len(ord)
    THEN {[h |-> h, ret |-> updated, exc |-> FALSE]}
    ELSE UpdateLoop(SetSkipValidation(h, self, ord[i], h[new][ord[i]]),
                    self, new, mi, ord, i + 1, TRUE)

UpdateLoop(h, self, new, mi, ord, i, updated) ==
    IF i > Len(ord)
    THEN {[h |-> h, ret |-> updated, exc |-> FALSE]}
    ELSE LET key == ord[i]
             value == h[new][key]
             old == h[self][key]
         IN  IF IsRec(key, value) /\ IsRec(key, old)
             THEN UNION { IF o.exc
                          THEN {o}
                          ELSE UpdateLoop(o.h, self, new, mi, ord, i + 1, updated \/ o.ret)
                          : o \in Update(h, old[1], value[1], mi) }
             ELSE UpdateLoop(SetSkipValidation(h, self, key, value),
                             self, new, mi, ord, i + 1, TRUE)

\* (a variant without the index comparison)
UpdateNoGuard(h, self, new, mi) ==
    IF mi /\ (~HasIndex(h[self]) \/ ~HasIndex(h[new]))
    THEN {[h |-> h, ret |-> FALSE, exc |-> TRUE]}
    ELSE UNION { UpdateLoop(h, self, new, mi, ord, 1, FALSE)
                 : ord \in Orders(ModelFieldsSet(h[new])) }

Update(h, self, new, mi) ==
    IF mi /\ (~HasIndex(h[self]) \/ ~HasIndex(h[new]))
    THEN {[h |-> h, ret |-> FALSE, exc |-> TRUE]}
    ELSE IF mi /\ Index(h[self]) # Index(h[new])
         THEN {[h |-> h, ret |-> FALSE, exc |-> FALSE]}
         ELSE UNION { UpdateLoop(h, self, new, mi, ord, 1, FALSE)
                      : ord \in Orders(ModelFieldsSet(h[new])) }

(* BaseModel.__eq__: same type and equal field values, nested records          *)
(* compared the same way; model_fields_set is not compared.                    *)
RECURSIVE ModelEq(_, _, _, _)
ModelEq(h1, r1, h2, r2) ==
    /\ h1[r1].typ = h2[r2].typ
    /\ h1[r1].id = h2[r2].id
    /\ h1[r1].x = h2[r2].x
    /\ (h1[r1].child = NoChild) = (h2[r2].child = NoChild)
    /\ h1[r1].child # NoChild => ModelEq(h1, h1[r1].child[1], h2, h2[r2].child[1])

---------------------------------------------------------------------------
(* JSONExportableRootDict.  The root dict is a sequence of [key, ref] entries  *)
(* with distinct keys, in insertion order (a Python dict).                    *)

Keys(root) == { root[i].key : i \in DOMAIN root }

\* root[key]
Get(root, key) == (CHOOSE e \in { root[i] : i \in DOMAIN root } : e.key = key).ref

\* root[key] = ref: an existing key keeps its place, a new key goes last
Put(root, key, ref) ==
    IF key \in Keys(root)
    THEN [i \in DOMAIN root |-> IF root[i].key = key THEN [key |-> key, ref |-> ref] ELSE root[i]]
    ELSE Append(root, [key |-> key, ref |-> ref])

\* del root[key]
Del(root, key) == SelectSeq(root, LAMBDA e : e.key # key)

\* the loop "for key in updated": one outcome [h, done, exc] per order and per
\* outcome of each record update; done is updated_idx
RECURSIVE UpdatedLoop(_, _, _, _, _, _, _)
UpdatedLoop(h, self, new, mi, ord, i, done) ==
    IF i > Len(ord)
    THEN {[h |-> h, done |-> done, exc |-> FALSE]}
    ELSE UNION { IF o.exc
                 THEN {[h |-> o.h, done |-> done, exc |-> TRUE]}
                 ELSE UpdatedLoop(o.h, self, new, mi, ord, i + 1, done \cup {ord[i]})
                 : o \in Update(h, Get(self, ord[i]), Get(new, ord[i]), mi) }

\* the loop "for key in added: self.root[key] = new[key]"
RECURSIVE AddedLoop(_, _, _, _)
\* (a variant that takes over the root dict of new)
AddedLoopReplace(self, new, ord, i) == new

AddedLoop(self, new, ord, i) ==
    IF i > Len(ord) THEN self
    ELSE AddedLoop(Put(self, ord[i], Get(new, ord[i])), new, ord, i + 1)

(* JSONExportableRootDict.update: the outcomes [h, root, added, updated, exc]  *)
(* of self.update(new, match_index), self and new being root dicts over h.    *)
CollUpdate(h, self, new, mi) ==
    LET new_ids == Keys(new)
        old_ids == Keys(self)
        added == new_ids \ old_ids
        updated == { key \in new_ids \cap old_ids : ~ModelEq(h, Get(new, key), h, Get(self, key)) }
    IN  UNION { UNION { IF u.exc
                        THEN {[h |-> u.h, root |-> self, added |-> {}, updated |-> {}, exc |-> TRUE]}
                        ELSE { [h |-> u.h, root |-> AddedLoop(self, new, aord, 1),
                                added |-> added, updated |-> u.done, exc |-> FALSE]
                               : aord \in Orders(added) }
                        : u \in UpdatedLoop(h, self, new, mi, uord, 1, {}) }
                : uord \in Orders(updated) }

---------------------------------------------------------------------------
(* Construction.  A constructor call marks exactly the fields it is given    *)
(* as set; the others hold their defaults.  Each option is [s, v]: whether   *)
(* the field is given, and its value.                                        *)

IdOpts == {[s |-> FALSE, v |-> 0]} \cup {[s |-> TRUE, v |-> k] : k \in Ids}
XOpts == {[s |-> FALSE, v |-> FALSE], [s |-> TRUE, v |-> FALSE], [s |-> TRUE, v |-> TRUE]}
ChildOpts(r) == {[s |-> FALSE, v |-> NoChild], [s |-> TRUE, v |-> NoChild], [s |-> TRUE, v |-> <<r>>]}
NoChildOpts == {[s |-> FALSE, v |-> NoChild]}

Construct(t, i, xx, c) ==
    [typ |-> t, id |-> i.v, x |-> xx.v, child |-> c.v,
     fset |-> (IF i.s THEN {"id"} ELSE {}) \cup (IF xx.s THEN {"x"} ELSE {})
              \cup (IF c.s THEN {"child"} ELSE {})]

Shapes(types, childOpts) ==
    { Construct(t, i, xx, c) : t \in types, i \in IdOpts, xx \in XOpts, c \in childOpts }

\* the nested record a parent refers to, or an untouched default when it has none;
\* a nested record of the plain type is constructed without its id
ChildShapes(parent) ==
    IF parent.child = NoChild
    THEN {DefaultRec("Keyed")}
    ELSE Shapes({"Keyed"}, NoChildOpts)
         \cup { o \in Shapes({"Plain"}, NoChildOpts) : "id" \notin o.fset }

NoCall == [op |-> "init"]
NoColl == [c \in {"X", "Y"} |-> <<>>]   \* two empty collections
NoPolicy == <<>>
NoDump == <<>>
NoFiles == [n \in {} |-> 0]
NoExport == [pc |-> "idle"]

---------------------------------------------------------------------------
(* Dump calls: obj_db, obj_src, json_db, json_src and _export_helper.         *)
(* An include/exclude dict is <<>> for None and <<S>> for a dict with the     *)
(* keys S.  The class attributes _exclude_export_DB_fields, ... are the       *)
(* record policy [exDB, inDB, exSrc, inSrc], shared by every instance.        *)

None == <<>>
Dict(S) == <<S>>

\* class attributes _export_DB_by_alias, _exclude_defaults, _exclude_unset, _exclude_none
ExportDBByAlias == TRUE
ExcludeDefaults == TRUE
ExcludeUnset == TRUE
ExcludeNone == TRUE

\* the params dict built by obj_db / json_db, resp. obj_src / json_src; the
\* exclude and include entries are the class-level dicts themselves
BaseParams(pol, view) ==
    IF view = "db"
    THEN [exclude |-> pol.exDB, include |-> pol.inDB,
          exclude_defaults |-> ExcludeDefaults, exclude_unset |-> FALSE,
          exclude_none |-> FALSE, by_alias |-> ExportDBByAlias]
    ELSE [exclude |-> pol.exSrc, include |-> pol.inSrc,
          exclude_defaults |-> FALSE, exclude_unset |-> ExcludeUnset,
          exclude_none |-> ExcludeNone, by_alias |-> ~ExportDBByAlias]

\* dict.update on a params entry: merges the keys in place, or fails on None
\* (the failure is caught and the keyword argument then replaces the entry)
MergedInPlace(entry, extra) ==
    IF extra = None \/ entry = None THEN entry ELSE Dict(entry[1] \cup extra[1])

(* _export_helper(params, fields, include=inc, exclude=exc): the params       *)
(* handed to model_dump, and the class-level dicts as the call leaves them.   *)
(* fields, inc, exc are None when the argument is not given.                  *)
ExportHelper(params, fields, inc, exc) ==
    LET override(e, extra) == IF extra = None THEN e ELSE extra
    IN  IF fields # None
        THEN [params |-> [params EXCEPT !.exclude = override(None, exc),
                                        !.include = override(Dict(fields[1]), inc),
                                        !.exclude_defaults = FALSE,
                                        !.exclude_unset = FALSE,
                                        !.exclude_none = FALSE],
              exclude |-> params.exclude, include |-> params.include]
        ELSE LET ex == MergedInPlace(params.exclude, exc)
                 in == MergedInPlace(params.include, inc)
             IN  [params |-> [params EXCEPT
                                !.exclude = IF params.exclude = None THEN override(None, exc) ELSE ex,
                                !.include = IF params.include = None THEN override(None, inc) ELSE in],
                  exclude |-> ex, include |-> in]

\* the key a field is dumped under
Alias(f, by_alias) == IF by_alias /\ f = "id" THEN "_id" ELSE f

\* BaseModel.model_dump(**params) of an instance without nested records
ModelDump(o, params) ==
    LET kept == { f \in Fields :
                    /\ params.include = None \/ f \in params.include[1]
                    /\ params.exclude = None \/ f \notin params.exclude[1]
                    /\ params.exclude_unset => f \in o.fset
                    /\ params.exclude_defaults => o[f] # DefaultRec(o.typ)[f]
                    /\ params.exclude_none => ~(f = "child" /\ o.child = NoChild) }
    IN  [n \in { Alias(f, params.by_alias) : f \in kept } |->
            o[CHOOSE f \in kept : Alias(f, params.by_alias) = n]]

---------------------------------------------------------------------------
(* SpecMerge: two records a (object 1) and b (object 2) of the keyed type,   *)
(* each with an optional nested record (objects 3 and 4), and update calls   *)
(* between them.                                                             *)

InitMerge ==
    /\ \E a \in Shapes({"Keyed"}, ChildOpts(3)), b \in Shapes({"Keyed"}, ChildOpts(4)) :
         \E ca \in ChildShapes(a), cb \in ChildShapes(b) :
            heap = <<a, b, ca, cb>>
    /\ coll = NoColl
    /\ last = NoCall
    /\ nops = 0
    /\ policy = NoPolicy
    /\ dump = NoDump
    /\ fs = NoFiles /\ stdout = <<>> /\ exp = NoExport

\* self.update(new, match_index=mi)
RecordUpdate(self, new, mi) ==
    /\ nops < MaxOps
    /\ \E o \in Update(heap, self, new, mi) :
          /\ heap' = o.h
          /\ last' = [op |-> "update", self |-> self, new |-> new, mi |-> mi,
                      ret |-> o.ret, exc |-> o.exc, h0 |-> heap]
    /\ nops' = nops + 1
    /\ UNCHANGED <<coll, policy, dump, fs, stdout, exp>>

NextMerge ==
    \E self \in {1, 2}, new \in {1, 2}, mi \in BOOLEAN :
        self # new /\ RecordUpdate(self, new, mi)

SpecMerge == InitMerge /\ [][NextMerge]_vars

---------------------------------------------------------------------------
(* SpecColl: two collections X and Y, empty at first, filled by add and      *)
(* merged by update.  Objects 1, 2 are added to X and 3, 4 to Y; 5 and 6 are  *)
(* the nested records of 1 and 3.  Objects 2 and 4 share index 1 and differ   *)
(* in x, which only object 2 sets.                                            *)

CollChildShapes(parent) ==
    IF parent.child = NoChild
    THEN {DefaultRec("Keyed")}
    ELSE { o \in Shapes({"Keyed"}, NoChildOpts) : o.fset = {"id"} }

CollShapes(r) == { o \in Shapes({"Keyed"}, ChildOpts(r)) : "child" \in o.fset => o.child # NoChild }

InitColl ==
    /\ \E a \in CollShapes(5), b \in CollShapes(6) :
         \E ca \in CollChildShapes(a), cb \in CollChildShapes(b) :
            heap = << a,
                      Construct("Keyed", [s |-> TRUE, v |-> 1], [s |-> TRUE, v |-> TRUE],
                                [s |-> FALSE, v |-> NoChild]),
                      b,
                      Construct("Keyed", [s |-> TRUE, v |-> 1], [s |-> FALSE, v |-> FALSE],
                                [s |-> FALSE, v |-> NoChild]),
                      ca, cb >>
    /\ coll = NoColl
    /\ last = NoCall
    /\ nops = 0
    /\ policy = NoPolicy
    /\ dump = NoDump
    /\ fs = NoFiles /\ stdout = <<>> /\ exp = NoExport

\* c.add(item): self.root[item.index] = item
Add(c, r) ==
    /\ nops < MaxOps
    /\ IF HasIndex(heap[r])
       THEN /\ coll' = [coll EXCEPT ![c] = Put(@, Index(heap[r]), r)]
            /\ last' = [op |-> "add", exc |-> FALSE]
       ELSE /\ coll' = coll
            /\ last' = [op |-> "add", exc |-> TRUE]
    /\ UNCHANGED <<heap, nops, policy, dump, fs, stdout, exp>>

\* (added, updated) = c.update(d, match_index=mi)
CollectionUpdate(c, d, mi) ==
    /\ nops < MaxOps
    /\ \E o \in CollUpdate(heap, coll[c], coll[d], mi) :
          /\ heap' = o.h
          /\ coll' = [coll EXCEPT ![c] = o.root]
          /\ last' = [op |-> "collupdate", self |-> c, new |-> d, mi |-> mi,
                      added |-> o.added, updated |-> o.updated, exc |-> o.exc,
                      h0 |-> heap, c0 |-> coll]
    /\ nops' = nops + 1
    /\ UNCHANGED <<policy, dump, fs, stdout, exp>>

NextColl ==
    \/ \E r \in {1, 2} : Add("X", r)
    \/ \E r \in {3, 4} : Add("Y", r)
    \/ \E c \in {"X", "Y"}, d \in {"X", "Y"}, mi \in BOOLEAN :
          c # d /\ CollectionUpdate(c, d, mi)

SpecColl == InitColl /\ [][NextColl]_vars

---------------------------------------------------------------------------
(* Properties of record update (SpecMerge).                                  *)

\* the value of field f of r1 in h1 equals that of r2 in h2; nested records
\* are compared as whole values
FieldEq(h1, r1, h2, r2, f) ==
    IF f = "child"
    THEN /\ (h1[r1].child = NoChild) = (h2[r2].child = NoChild)
         /\ h1[r1].child # NoChild => ModelEq(h1, h1[r1].child[1], h2, h2[r2].child[1])
    ELSE h1[r1][f] = h2[r2][f]

\* the last call was a.update(b) with a and b of the same identity, and it returned
MergedSameIdentity ==
    /\ last.op = "update"
    /\ ~last.exc
    /\ HasIndex(last.h0[last.self]) /\ HasIndex(last.h0[last.new])
    /\ Index(last.h0[last.self]) = Index(last.h0[last.new])

\* field f holds a record on both sides before the call
BothRec(f) ==
    IsRec(f, last.h0[last.new][f]) /\ IsRec(f, last.h0[last.self][f])

\* C1 as stated: after a.update(b) with a, b of the same identity, every field
\* set on b holds on a the value it holds on b, nested records included, and
\* every field unset on b holds on a the value it held before.
C1_SetFieldsTakeValueOfNew ==
    MergedSameIdentity =>
        \A f \in Fields :
            IF f \in last.h0[last.new].fset
            THEN FieldEq(heap, last.self, heap, last.new, f)
            ELSE FieldEq(heap, last.self, last.h0, last.self, f)

\* C1 amended: after a.update(b) with a, b of the same identity, a field set on b
\* holds on a the value it holds on b unless it holds a record on both a and b;
\* such a field keeps a's nested record, into which b's nested record is merged
\* by the same rule, or which stays as it was when match_index is true and the
\* nested identities differ; a field unset on b holds on a its value from before.
C1_MergePatchesSetFields ==
    MergedSameIdentity =>
        \A f \in Fields :
            IF f \notin last.h0[last.new].fset
            THEN FieldEq(heap, last.self, last.h0, last.self, f)
            ELSE IF ~BothRec(f)
            THEN heap[last.self][f] = heap[last.new][f]
            ELSE LET ca == last.h0[last.self][f][1]
                     cb == last.h0[last.new][f][1]
                 IN  /\ heap[last.self][f] = last.h0[last.self][f]
                     /\ IF last.mi /\ Index(last.h0[ca]) # Index(last.h0[cb])
                        THEN heap[ca] = last.h0[ca]
                        ELSE \A g \in Fields :
                                IF g \in last.h0[cb].fset
                                THEN heap[ca][g] = heap[cb][g]
                                ELSE heap[ca][g] = last.h0[ca][g]

\* a merge that patched a nested record, changed it, and left alone a field
\* that b does not set
C1_Witness ==
    /\ MergedSameIdentity
    /\ "child" \in last.h0[last.new].fset /\ BothRec("child")
    /\ "x" \notin last.h0[last.new].fset /\ last.h0[last.self].x
    /\ LET ca == last.h0[last.self].child[1]
           cb == last.h0[last.new].child[1]
       IN  /\ "x" \in last.h0[cb].fset
           /\ last.h0[ca].x # last.h0[cb].x
           /\ heap[ca].x = last.h0[cb].x

\* the last call was a.update(b, match_index=True) with a.index != b.index
MismatchCall ==
    /\ last.op = "update"
    /\ last.mi
    /\ HasIndex(last.h0[last.self]) /\ HasIndex(last.h0[last.new])
    /\ Index(last.h0[last.self]) # Index(last.h0[last.new])

\* C2: when match_index is true and a.index != b.index, a.update(b) returns
\* False, does not raise, and changes no field and no set-mark of a (nor
\* anything else in the object store).
C2_IdentityGuard ==
    MismatchCall => ~last.exc /\ last.ret = FALSE /\ heap = last.h0

\* a refused merge whose b sets a field to a value a does not hold
C2_Witness ==
    /\ MismatchCall
    /\ "x" \in last.h0[last.new].fset
    /\ last.h0[last.new].x # last.h0[last.self].x
    /\ "child" \in last.h0[last.new].fset
    /\ BothRec("child")

---------------------------------------------------------------------------
(* Properties of collection update (SpecColl).                               *)

\* the last call was c.update(d, match_index) and it returned
CollUpdated == last.op = "collupdate" /\ ~last.exc

\* C3: a key is in the returned updated set only if the merge changed the
\* value of at least one field of the receiving collection's record.
C3_UpdatedOnlyRealChanges ==
    CollUpdated =>
        \A k \in last.updated :
            ~ModelEq(last.h0, Get(last.c0[last.self], k), heap, Get(coll[last.self], k))

\* C4: added = keys(Y) - keys(X), updated is within keys(Y) /\ keys(X), the two
\* are disjoint and within keys(Y); afterwards keys(X) is the old keys(X) with
\* keys(Y), and every added key maps in X to Y's record.
C4_UpdateDiff ==
    CollUpdated =>
        LET oldX == Keys(last.c0[last.self])
            keysY == Keys(last.c0[last.new])
        IN  /\ last.added = keysY \ oldX
            /\ last.updated \subseteq (keysY \cap oldX)
            /\ last.added \cap last.updated = {}
            /\ (last.added \cup last.updated) \subseteq keysY
            /\ Keys(coll[last.self]) = oldX \cup keysY
            /\ \A k \in last.added :
                  Get(coll[last.self], k) = Get(last.c0[last.new], k)

\* an update that added a key, updated a key and kept a key Y does not have
C4_Witness ==
    /\ CollUpdated
    /\ last.added # {}
    /\ last.updated # {}
    /\ Keys(last.c0[last.self]) \ Keys(last.c0[last.new]) # {}

---------------------------------------------------------------------------
(* SpecDump: one record type with its class-level policy, two instances, and  *)
(* dump calls in both views.                                                  *)

PolicyOpts == {None, Dict({"x"})}
ExtraOpts == {None, Dict({"child"})}
FieldsOpts == {None, <<{"id", "child"}>>}

InitDump ==
    /\ \E a \in { o \in Shapes({"Keyed"}, NoChildOpts) : o.id = 1 } :
          heap = << a, Construct("Keyed", [s |-> TRUE, v |-> 1], [s |-> TRUE, v |-> TRUE],
                                 [s |-> FALSE, v |-> NoChild]) >>
    /\ policy \in [exDB : PolicyOpts, inDB : PolicyOpts, exSrc : PolicyOpts, inSrc : PolicyOpts]
    /\ dump = [op |-> "init", pol0 |-> policy]
    /\ coll = NoColl
    /\ last = NoCall
    /\ nops = 0
    /\ fs = NoFiles /\ stdout = <<>> /\ exp = NoExport

\* r.obj_db / r.json_db (view "db") or r.obj_src / r.json_src (view "src"),
\* kind "obj" or "json", with fields, include=inc, exclude=exc
DumpCall(view, kind, r, fields, inc, exc) ==
    LET out == ExportHelper(BaseParams(policy, view), fields, inc, exc)
    IN  /\ policy' = IF view = "db"
                     THEN [policy EXCEPT !.exDB = out.exclude, !.inDB = out.include]
                     ELSE [policy EXCEPT !.exSrc = out.exclude, !.inSrc = out.include]
        /\ dump' = [op |-> "dump", view |-> view, kind |-> kind, r |-> r,
                    fields |-> fields, inc |-> inc, exc |-> exc,
                    result |-> ModelDump(heap[r], out.params), pol0 |-> dump.pol0]
        /\ UNCHANGED <<heap, coll, last, nops, fs, stdout, exp>>

NextDump ==
    \E view \in {"db", "src"}, kind \in {"obj", "json"}, r \in {1, 2},
       fields \in FieldsOpts, inc \in ExtraOpts, exc \in ExtraOpts :
        DumpCall(view, kind, r, fields, inc, exc)

SpecDump == InitDump /\ [][NextDump]_vars

\* C5: a dump call never mutates the type-level include/exclude policy, and a
\* dump call without extras returns what it returns when no call was made
\* before it, on any instance and in either view.
C5_DumpCallsShareNoState ==
    dump.op = "dump" =>
        /\ policy = dump.pol0
        /\ (dump.fields = None /\ dump.inc = None /\ dump.exc = None) =>
              dump.result = ModelDump(heap[dump.r], BaseParams(dump.pol0, dump.view))

---------------------------------------------------------------------------
(* Streaming export: export, export_csv, export_json, export_txt.             *)
(* A file name is a sequence of characters.  A record of the input sequence   *)
(* is the way its rendering or writing ends: "ok", "keyerr" (KeyError) or      *)
(* "raise" (any other Exception).  A line written is [t, i]: the renderer      *)
(* that produced it and the position of the record in the input.              *)

ExportFormatList == <<"txt", "json", "csv">>        \* EXPORT_FORMATS
Formats == {"txt", "json", "csv"}                   \* get_args(EXPORT_FORMAT)

Dash == <<"-">>
Chars(f) ==
    CASE f = "csv" -> <<"c", "s", "v">>
      [] f = "json" -> <<"j", "s", "o", "n">>
      [] f = "txt" -> <<"t", "x", "t">>

\* str.lower, str.endswith
LowerChar(c) ==
    CASE c = "C" -> "c" [] c = "S" -> "s" [] c = "V" -> "v"
      [] c = "T" -> "t" [] c = "X" -> "x" [] OTHER -> c
Lower(str) == [i \in 1..Len(str) |-> LowerChar(str[i])]
EndsWith(str, suffix) ==
    /\ Len(str) >= Len(suffix)
    /\ SubSeq(str, Len(str) - Len(suffix) + 1, Len(str)) = suffix

\* export(): the loop over EXPORT_FORMATS that lets the file name set the format
RECURSIVE ResolveLoop(_, _, _)
ResolveLoop(filename, format, k) ==
    IF k > Len(ExportFormatList)
    THEN format
    ELSE ResolveLoop(filename,
                     IF EndsWith(filename, Chars(ExportFormatList[k]))
                     THEN ExportFormatList[k] ELSE format,
                     k + 1)

ResolveFormat(filename, format) ==
    IF filename # Dash THEN ResolveLoop(filename, format, 1) ELSE format

\* export_csv / export_json / export_txt: the file name written to
Dest(filename, fmt) ==
    IF EndsWith(Lower(filename), Chars(fmt))
    THEN filename
    ELSE filename \o <<".">> \o Chars(fmt)

\* os.path.exists, os.path.isfile
Exists(f, name) == name \in DOMAIN f
IsFile(f, name) == name \in DOMAIN f /\ f[name].kind = "file"

\* the check that raises FileExistsError
\* (a variant that refuses only what is not a regular file)
ConflictNonFileOnly(f, name, force, append) == Exists(f, name) /\ ~IsFile(f, name)

Conflict(f, name, force, append) ==
    Exists(f, name) /\ (~IsFile(f, name) \/ ~(force \/ append))

\* (a variant that never appends)
AppendModeNever(f, name, append) == FALSE

\* mode "a" is chosen when append is set and the file exists, else "w"
AppendMode(f, name, append) == append /\ IsFile(f, name)

\* open(filename, mode): "w" creates or truncates, "a" keeps the content
Open(f, name, appendMode) ==
    IF appendMode
    THEN f
    ELSE [n \in DOMAIN f \cup {name} |->
            IF n = name THEN [kind |-> "file", content |-> <<>>] ELSE f[n]]

\* one line written to an open file
Write(f, name, line) == [f EXCEPT ![name].content = Append(@, line)]

Line(t, i) == [t |-> t, i |-> i]
Header == Line("hdr", 0)

\* EventCounter: a new counter, log(category), merge_child(child)
NewCounter == [rows |-> 0, errors |-> 0]
Log(stats, cat) == [stats EXCEPT ![cat] = @ + 1]
MergeChild(stats, child) ==
    [rows |-> stats.rows + child.rows, errors |-> stats.errors + child.errors]

\* what the caller of the entry point gets when the exporter ends with
\* `raised` ("none" or "CancelledError") and counter stats: export() merges the
\* counter of an exporter that returned, and its "finally: return stats"
\* returns its own counter also when CancelledError passes through
Handed(entry, raised, stats) ==
    IF entry = "export"
    THEN [raised |-> "none",
          stats |-> IF raised = "none" THEN MergeChild(NewCounter, stats) ELSE NewCounter]
    ELSE [raised |-> raised, stats |-> IF raised = "none" THEN stats ELSE NewCounter]

\* the call ended: the exporter returned its counter or let `raised` out
Finished(e, raised) ==
    [e EXCEPT !.pc = "done", !.result = Handed(e.entry, raised, e.stats)]

\* the row printed for record k by the exporter of format fmt on standard
\* output: [e, lines] after the row's try block.  escaped = TRUE when the
\* exception is not caught by the row's except clause.
PrintRow(e, lines, k) ==
    LET kind == e.items[k]
        t == IF e.fmt = "txt" THEN "rich" ELSE e.fmt
    IN  IF kind = "ok"
        THEN [e |-> [e EXCEPT !.i = k, !.stats = Log(@, "rows")],
              lines |-> Append(lines, Line(t, k)), escaped |-> FALSE]
        ELSE IF e.fmt # "csv" \/ kind = "keyerr"
        THEN [e |-> [e EXCEPT !.i = k, !.stats = Log(@, "errors")],
              lines |-> lines, escaped |-> FALSE]
        ELSE [e |-> [e EXCEPT !.i = k], lines |-> lines, escaped |-> TRUE]

\* the call runs up to its first await
Begin ==
    /\ exp.pc = "start"
    /\ LET fmt == IF exp.entry = "export" THEN ResolveFormat(exp.name, exp.reqfmt) ELSE exp.reqfmt
           e == [exp EXCEPT !.fmt = fmt]
       IN  IF fmt \notin Formats
           THEN \* ValueError, caught in export(): stats.log("errors")
                exp' = [e EXCEPT !.pc = "done",
                                 !.result = [raised |-> "none", stats |-> Log(NewCounter, "errors")]]
           ELSE IF fmt = "csv"
           THEN exp' = [e EXCEPT !.pc = "first"]
           ELSE IF exp.name = Dash
           THEN exp' = [e EXCEPT !.pc = "next"]
           ELSE LET dest == Dest(exp.name, fmt)
                IN  IF Conflict(fs, dest, exp.force, exp.append)
                    THEN exp' = Finished([e EXCEPT !.dest = dest, !.conflict = TRUE], "none")
                    ELSE exp' = [e EXCEPT !.dest = dest, !.pc = "open",
                                          !.app = AppendMode(fs, dest, exp.append)]
    /\ UNCHANGED <<fs, stdout, recVars, dumpVars>>

\* export_csv with a first record: header and first row on standard output,
\* or the destination check for a file
FirstRecord ==
    IF exp.name = Dash
    THEN LET p == PrintRow(exp, Append(stdout, Header), 1)
         IN  /\ stdout' = p.lines
             /\ exp' = IF p.escaped THEN Finished(p.e, "none") ELSE [p.e EXCEPT !.pc = "next"]
             /\ fs' = fs
    ELSE LET dest == Dest(exp.name, "csv")
         IN  /\ IF Conflict(fs, dest, exp.force, exp.append)
                THEN exp' = Finished([exp EXCEPT !.dest = dest, !.i = 1, !.conflict = TRUE], "none")
                ELSE exp' = [exp EXCEPT !.dest = dest, !.i = 1, !.pc = "open",
                                        !.app = AppendMode(fs, dest, exp.append)]
             /\ UNCHANGED <<fs, stdout>>

\* (a variant that prints the header, or opens the file, before it looks at
\* the first record)
FirstOpensUnseen ==
    /\ exp.pc = "first"
    /\ IF Len(exp.items) = 0
       THEN /\ exp' = Finished(exp, "none")
            /\ IF exp.name = Dash
               THEN stdout' = Append(stdout, Header) /\ fs' = fs
               ELSE /\ fs' = Open(fs, Dest(exp.name, "csv"), FALSE)
                    /\ stdout' = stdout
       ELSE FirstRecord
    /\ UNCHANGED <<recVars, dumpVars>>

\* export_csv: the first record arrives (or the input is empty)
First ==
    /\ exp.pc = "first"
    /\ IF Len(exp.items) = 0
       THEN exp' = Finished(exp, "none") /\ UNCHANGED <<fs, stdout>>
       ELSE FirstRecord
    /\ UNCHANGED <<recVars, dumpVars>>

\* async with open(filename, mode=mode)
OpenFile ==
    /\ exp.pc = "open"
    /\ fs' = Open(fs, exp.dest, exp.app)
    /\ exp' = [exp EXCEPT !.pc = IF exp.fmt # "csv" THEN "next"
                                 ELSE IF exp.app THEN "write" ELSE "header"]
    /\ UNCHANGED <<stdout, recVars, dumpVars>>

\* await writer.writeheader()
WriteHeader ==
    /\ exp.pc = "header"
    /\ fs' = Write(fs, exp.dest, Header)
    /\ exp' = [exp EXCEPT !.pc = "write"]
    /\ UNCHANGED <<stdout, recVars, dumpVars>>

\* the row of record exp.i is rendered and written to the file
WriteRow ==
    /\ exp.pc = "write"
    /\ IF exp.items[exp.i] = "ok"
       THEN /\ fs' = Write(fs, exp.dest, Line(exp.fmt, exp.i))
            /\ exp' = [exp EXCEPT !.pc = "next", !.stats = Log(@, "rows")]
       ELSE /\ fs' = fs
            /\ exp' = [exp EXCEPT !.pc = "next", !.stats = Log(@, "errors")]
    /\ UNCHANGED <<stdout, recVars, dumpVars>>

\* the next record arrives, or the input ends
NextItem ==
    /\ exp.pc = "next"
    /\ IF exp.i = Len(exp.items)
       THEN exp' = Finished(exp, "none") /\ UNCHANGED <<fs, stdout>>
       ELSE IF exp.name = Dash
       THEN LET p == PrintRow(exp, stdout, exp.i + 1)
            IN  /\ stdout' = p.lines
                /\ exp' = IF p.escaped THEN Finished(p.e, "none") ELSE p.e
                /\ fs' = fs
       ELSE /\ exp' = [exp EXCEPT !.i = exp.i + 1, !.pc = "write"]
            /\ UNCHANGED <<fs, stdout>>
    /\ UNCHANGED <<recVars, dumpVars>>

\* whether CancelledError raised at await point pc is caught inside the
\* exporter of format fmt: export_json and export_txt catch it around their
\* whole body, export_csv only inside its two row loops
CancelCaught(fmt, pc) == fmt # "csv" \/ pc \in {"header", "write", "next"}

\* the surrounding task is cancelled while the call waits at exp.pc; the
\* operation awaited in a worker thread may or may not have taken effect
Cancel ==
    /\ exp.pc \in {"first", "open", "header", "write", "next"}
    /\ exp.pc = "write" => exp.items[exp.i] = "ok"
    /\ fs' \in {fs} \cup
              (CASE exp.pc = "open" -> {Open(fs, exp.dest, exp.app)}
                 [] exp.pc = "header" -> {Write(fs, exp.dest, Header)}
                 [] exp.pc = "write" -> {Write(fs, exp.dest, Line(exp.fmt, exp.i))}
                 [] OTHER -> {})
    /\ exp' = Finished([exp EXCEPT !.cancelled = TRUE, !.cancelAt = exp.pc],
                       IF CancelCaught(exp.fmt, exp.pc) THEN "none" ELSE "CancelledError")
    /\ UNCHANGED <<stdout, recVars, dumpVars>>

---------------------------------------------------------------------------
(* SpecExport: one export call with its arguments, on a file system where     *)
(* the destination is absent, a regular file with a line in it, or a          *)
(* directory.                                                                 *)

Names == { Dash, <<"o">>, <<"o", ".", "c", "s", "v">>, <<"o", ".", "C", "S", "V">>,
           <<"o", ".", "j", "s", "o", "n">>, <<"o", ".", "T", "X", "T">> }

\* entry point and format: export(format=...) or one of the three exporters
Entries ==
    { [entry |-> "export", fmt |-> f] : f \in Formats \cup {"xml"} }
    \cup { [entry |-> "export_" \o f, fmt |-> f] : f \in Formats }

\* the ways a record of an input for format fmt can render
Kinds(fmt) == IF fmt = "csv" THEN {"ok", "keyerr", "raise"} ELSE {"ok", "raise"}

ItemSeqs(K) == UNION { [1..n -> K] : n \in 0..MaxLen }

OldFile == [kind |-> "file", content |-> <<Line("old", 0)>>]
Directory == [kind |-> "dir", content |-> <<>>]

InitExport ==
    /\ \E en \in Entries, name \in Names, force \in BOOLEAN, append \in BOOLEAN :
         LET fmt == IF en.entry = "export" THEN ResolveFormat(name, en.fmt) ELSE en.fmt
             isFile == name # Dash /\ fmt \in Formats
         IN  /\ name = Dash => ~force /\ ~append
             /\ fs \in IF isFile
                       THEN {NoFiles} \cup { [n \in {Dest(name, fmt)} |-> f] : f \in {OldFile, Directory} }
                       ELSE {NoFiles}
             /\ \E items \in ItemSeqs(Kinds(fmt)) :
                   exp = [pc |-> "start", entry |-> en.entry, reqfmt |-> en.fmt, name |-> name,
                          force |-> force, append |-> append, items |-> items,
                          fmt |-> "", dest |-> <<>>, i |-> 0, stats |-> NewCounter,
                          app |-> FALSE, conflict |-> FALSE, cancelled |-> FALSE,
                          cancelAt |-> "", result |-> [raised |-> "none", stats |-> NewCounter],
                          fs0 |-> fs]
    /\ stdout = <<>>
    /\ heap = <<>> /\ coll = NoColl /\ last = NoCall /\ nops = 0
    /\ policy = NoPolicy /\ dump = NoDump

NextExport ==
    \/ Begin
    \/ First
    \/ OpenFile
    \/ WriteHeader
    \/ WriteRow
    \/ NextItem
    \/ Cancel

SpecExport == InitExport /\ [][NextExport]_vars

---------------------------------------------------------------------------
(* Properties of the streaming export.                                        *)

RECURSIVE OkRows(_, _, _)
\* the rows of the "ok" records among items[k..], in input order, as renderer t
\* writes them
OkRows(items, t, k) ==
    IF k > Len(items) THEN <<>>
    ELSE IF items[k] = "ok" THEN <<Line(t, k)>> \o OkRows(items, t, k + 1)
    ELSE OkRows(items, t, k + 1)

RECURSIVE Count(_, _, _)
Count(items, ok, k) ==
    IF k > Len(items) THEN 0
    ELSE (IF (items[k] = "ok") = ok THEN 1 ELSE 0) + Count(items, ok, k + 1)

\* an export call that ran to the end of its input: not refused, not cancelled
RanThrough ==
    exp.pc = "done" /\ exp.fmt \in Formats /\ ~exp.conflict /\ ~exp.cancelled

\* the rows the destination received during the call
Received ==
    IF exp.name = Dash THEN stdout
    ELSE IF exp.dest \in DOMAIN fs
         THEN LET c == fs[exp.dest].content
                  skip == IF exp.app THEN Len(exp.fs0[exp.dest].content) ELSE 0
              IN  SubSeq(c, skip + 1, Len(c))
         ELSE <<>>

Expected ==
    LET t == IF exp.name = Dash /\ exp.fmt = "txt" THEN "rich" ELSE exp.fmt
        rows == OkRows(exp.items, t, 1)
    IN  IF exp.fmt = "csv" /\ ~exp.app /\ Len(exp.items) > 0 THEN <<Header>> \o rows ELSE rows

\* C6: an export that runs through its input returns rows = number of records
\* that rendered and were written, errors = number of records that failed, and
\* the destination holds exactly the rows of the former in input order (after
\* the header, for CSV), whatever the format and the destination.
C6_RowIsolation ==
    RanThrough =>
        /\ exp.result.raised = "none"
        /\ exp.result.stats.rows = Count(exp.items, TRUE, 1)
        /\ exp.result.stats.errors = Count(exp.items, FALSE, 1)
        /\ Received = Expected

\* the destination of the call is a regular file that existed before the call,
\* and neither force nor append was asked for
ExistingUnforced ==
    /\ exp.name # Dash
    /\ \E n \in DOMAIN exp.fs0 : exp.fs0[n].kind = "file"
    /\ ~exp.force /\ ~exp.append

\* C7: when the destination file exists and neither force nor append is set,
\* no step of an export in any format writes anything: the file system stays
\* as it was before the call and nothing is printed.
C7_ConflictBeforeAnyWrite ==
    ExistingUnforced => fs = exp.fs0 /\ stdout = <<>>

\* C7 witness: a call with a first record that renders was refused on an
\* existing file without force or append.
C7_Witness ==
    /\ exp.pc = "done" /\ exp.conflict /\ ExistingUnforced
    /\ Len(exp.items) > 0 /\ exp.items[1] = "ok"
    /\ exp.fs0[exp.dest].content = <<Line("old", 0)>>

\* C8: what the caller gets back from an export refused because the destination
\* exists (no force, no append) differs from what it gets back from a successful
\* export of an empty input.
C8_ConflictReachesCaller ==
    (exp.pc = "done" /\ exp.conflict /\ ExistingUnforced) =>
        exp.result # Handed(exp.entry, "none", NewCounter)

\* C9: in export(), a file name that ends in .csv, .json or .txt, compared
\* case-insensitively, selects the renderer of that suffix whatever format was
\* requested; on standard output the requested format is the one used.
C9_FormatResolution ==
    (exp.pc \notin {"idle", "start"} /\ exp.entry = "export") =>
        /\ exp.name # Dash =>
              \A f \in Formats :
                  EndsWith(Lower(exp.name), <<".">> \o Chars(f)) => exp.fmt = f
        /\ exp.name = Dash => exp.fmt = exp.reqfmt

\* C10: an export cancelled at any await point returns its counter normally,
\* with the rows and errors counted before the cancellation.
C10_CancelIsCleanStop ==
    (exp.pc = "done" /\ exp.cancelled) =>
        /\ exp.result.raised = "none"
        /\ exp.result.stats = exp.stats

---------------------------------------------------------------------------
(* Reading raw objects: from_obj, from_objs, transform.                       *)
(* A raw object is [v, okCls, okIn, tr]: its payload, whether it validates as *)
(* the record type cls, whether it validates as the input type, and what the  *)
(* transformation registered for the input type does with it: "rec" (returns  *)
(* a record), "none" (returns None) or "raise" (raises an exception).         *)
(* in_type is "none", "Cls" (the record type itself) or "In" (another model).   *)
(* A result is None or Some(record).                                          *)

Some(rec) == <<rec>>

\* cls.model_validate(obj) / in_type.model_validate(obj): the instance, or
\* ValidationError
ModelValidate(t, obj) ==
    IF (t = "Cls" /\ obj.okCls) \/ (t = "In" /\ obj.okIn)
    THEN [exc |-> FALSE, ret |-> Some([typ |-> t, v |-> obj.v, by |-> "validate", obj |-> obj])]
    ELSE [exc |-> TRUE, ret |-> None]

\* (a variant that lets the exception of a transformation out)
TransformNoCatch(registered, in_obj) ==
    IF in_obj.typ = "Cls"
    THEN [exc |-> FALSE, ret |-> Some(in_obj)]
    ELSE IF ~registered \/ in_obj.obj.tr = "raise"
    THEN [exc |-> TRUE, ret |-> None]
    ELSE IF in_obj.obj.tr = "none"
    THEN [exc |-> FALSE, ret |-> None]
    ELSE [exc |-> FALSE, ret |-> Some([typ |-> "Cls", v |-> in_obj.v, by |-> "transform", obj |-> in_obj.obj])]

\* cls.transform(in_obj): in_obj itself when it is of type cls, else the result
\* of the registered transformation; a missing transformation (KeyError) and
\* an exception of the transformation are caught and give None
Transform(registered, in_obj) ==
    IF in_obj.typ = "Cls"
    THEN [exc |-> FALSE, ret |-> Some(in_obj)]
    ELSE IF ~registered \/ in_obj.obj.tr = "raise"
    THEN [exc |-> FALSE, ret |-> None]
    ELSE IF in_obj.obj.tr = "none"
    THEN [exc |-> FALSE, ret |-> None]
    ELSE [exc |-> FALSE, ret |-> Some([typ |-> "Cls", v |-> in_obj.v, by |-> "transform", obj |-> in_obj.obj])]

\* in_type=None
NoInType == "none"

\* cls.from_obj(obj, in_type)
FromObj(registered, obj, in_type) ==
    IF in_type = NoInType
    THEN LET r == ModelValidate("Cls", obj)
         IN  [exc |-> FALSE, ret |-> IF r.exc THEN None ELSE r.ret]
    ELSE LET r == ModelValidate(in_type, obj)
         IN  IF r.exc THEN [exc |-> FALSE, ret |-> None]
             ELSE Transform(registered, r.ret[1])

\* cls.from_objs(objs, in_type): the list comprehension, element k onwards
RECURSIVE FromObjsFrom(_, _, _, _, _)
FromObjsFrom(registered, objs, in_type, k, acc) ==
    IF k > Len(objs)
    THEN [exc |-> FALSE, ret |-> acc]
    ELSE LET out == FromObj(registered, objs[k], in_type)
         IN  IF out.exc THEN [exc |-> TRUE, ret |-> <<>>]
             ELSE FromObjsFrom(registered, objs, in_type, k + 1,
                               IF out.ret # None THEN Append(acc, out.ret[1]) ELSE acc)

FromObjs(registered, objs, in_type) == FromObjsFrom(registered, objs, in_type, 1, <<>>)

RawObjs == [v : Ids, okCls : BOOLEAN, okIn : BOOLEAN, tr : {"rec", "none", "raise"}]
RawSeqs == UNION { [1..n -> RawObjs] : n \in 0..MaxRaw }
InTypes == {NoInType, "Cls", "In"}

---------------------------------------------------------------------------
(* SpecRead: one from_objs call on a sequence of raw objects.                 *)

InitRead ==
    /\ \E objs \in RawSeqs, in_type \in InTypes, registered \in BOOLEAN :
          last = [op |-> "input", objs |-> objs, in_type |-> in_type, registered |-> registered]
    /\ heap = <<>> /\ coll = NoColl /\ nops = 0
    /\ policy = NoPolicy /\ dump = NoDump
    /\ fs = NoFiles /\ stdout = <<>> /\ exp = NoExport

\* cls.from_objs(objs, in_type)
ReadMany ==
    /\ last.op = "input"
    /\ LET out == FromObjs(last.registered, last.objs, last.in_type)
       IN  last' = [op |-> "from_objs", objs |-> last.objs, in_type |-> last.in_type,
                    registered |-> last.registered, ret |-> out.ret, exc |-> out.exc]
    /\ nops' = nops + 1
    /\ UNCHANGED <<heap, coll, policy, dump, fs, stdout, exp>>

NextRead == ReadMany

SpecRead == InitRead /\ [][NextRead]_vars

\* whether a raw object validates and, with an input type, transforms
Succeeds(registered, obj, in_type) ==
    IF in_type = NoInType \/ in_type = "Cls"
    THEN obj.okCls
    ELSE obj.okIn /\ registered /\ obj.tr = "rec"

\* the positions of the raw objects that succeed, in ascending order
RECURSIVE GoodPositions(_, _, _, _)
GoodPositions(registered, objs, in_type, k) ==
    IF k > Len(objs) THEN <<>>
    ELSE (IF Succeeds(registered, objs[k], in_type) THEN <<k>> ELSE <<>>)
         \o GoodPositions(registered, objs, in_type, k + 1)

\* C11: from_objs never raises and returns, in input order, exactly what
\* from_obj yields for the raw objects that validate (and, with an input type,
\* transform); the failing ones are left out and affect no other element.
C11_BatchReadDropsFailures ==
    last.op = "from_objs" =>
        LET good == GoodPositions(last.registered, last.objs, last.in_type, 1)
        IN  /\ ~last.exc
            /\ Len(last.ret) = Len(good)
            /\ \A j \in 1..Len(good) :
                  LET one == FromObj(last.registered, last.objs[good[j]], last.in_type)
                  IN  /\ ~one.exc /\ one.ret = Some(last.ret[j])
                      /\ last.ret[j].obj = last.objs[good[j]]
                      /\ last.ret[j].typ = "Cls"

\* C11 witness: a batch whose first object fails in the transformation and
\* whose second object is read
C11_Witness ==
    /\ last.op = "from_objs" /\ last.in_type = "In" /\ last.registered
    /\ Len(last.objs) = 2
    /\ last.objs[1].okIn /\ last.objs[1].tr = "raise"
    /\ Succeeds(TRUE, last.objs[2], "In")
    /\ Len(last.ret) = 1

---------------------------------------------------------------------------
(* Further properties of the streaming export (SpecExport).                   *)

\* a CSV export, direct or through export(), that was given no record
EmptyCSV == exp.pc # "start" /\ exp.fmt = "csv" /\ Len(exp.items) = 0

\* C12: export_csv over an empty input prints no header and neither creates
\* nor modifies the destination, whatever force and append are and whether or
\* not the destination exists, and it returns a counter with zero rows and zero
\* errors.
C12_EmptyCSVExport ==
    EmptyCSV =>
        /\ fs = exp.fs0 /\ stdout = <<>>
        /\ (exp.pc = "done" /\ ~exp.cancelled) =>
              /\ exp.result.raised = "none"
              /\ exp.result.stats.rows = 0 /\ exp.result.stats.errors = 0

\* C12 witness: export_csv returned from an empty input with append set and the
\* destination present
C12_Witness ==
    /\ EmptyCSV /\ exp.pc = "done" /\ ~exp.cancelled
    /\ exp.entry = "export_csv" /\ exp.append
    /\ Dest(exp.name, "csv") \in DOMAIN exp.fs0

---------------------------------------------------------------------------
(* CSV rows: csv_row and _clear_None.  A row is a Python dict, here the       *)
(* sequence of its [key, value] items in insertion order.  A value is         *)
(* [t, v]: its type ("none", "str", "int", "float", "bool") and its text.     *)

NoneValue == [t |-> "none", v |-> "None"]
EmptyStr == [t |-> "str", v |-> ""]

\* _clear_None: the loop over res.items(), item k onwards; out is the dict
\* built so far, and out[key] = ... appends the key, the keys of res being
\* distinct
RECURSIVE ClearNoneFrom(_, _, _)
ClearNoneFrom(res, k, out) ==
    IF k > Len(res) THEN out
    ELSE LET value == res[k].value
         IN  ClearNoneFrom(res, k + 1,
                 Append(out, [key |-> res[k].key,
                              value |-> IF value = NoneValue THEN EmptyStr ELSE value]))

\* (a variant that tests the truth value instead of "is None")
ClearNoneFalsy(res) ==
    [i \in 1..Len(res) |->
        [key |-> res[i].key,
         value |-> IF res[i].value.v \in {"None", "", "0", "0.0", "False"}
                   THEN EmptyStr ELSE res[i].value]]

ClearNone(res) == ClearNoneFrom(res, 1, <<>>)

\* csv_row(): self._clear_None(self._csv_row())
CsvRow(row) == ClearNone(row)

Cols == {"a", "b", "c"}
Values == { NoneValue, EmptyStr, [t |-> "str", v |-> "x"], [t |-> "int", v |-> "0"],
            [t |-> "float", v |-> "0.0"], [t |-> "bool", v |-> "False"] }

\* the dicts a type's _csv_row() may return: distinct keys, any values
Rows ==
    UNION { { r \in [1..n -> [key : Cols, value : Values]] :
                \A i, j \in 1..n : i # j => r[i].key # r[j].key } : n \in 0..MaxCols }

---------------------------------------------------------------------------
(* SpecRow: one csv_row call on a record whose _csv_row() returns row.        *)

InitRow ==
    /\ \E row \in Rows : last = [op |-> "row", row |-> row]
    /\ heap = <<>> /\ coll = NoColl /\ nops = 0
    /\ policy = NoPolicy /\ dump = NoDump
    /\ fs = NoFiles /\ stdout = <<>> /\ exp = NoExport

CsvRowCall ==
    /\ last.op = "row"
    /\ last' = [op |-> "csv_row", row |-> last.row, ret |-> CsvRow(last.row)]
    /\ nops' = nops + 1
    /\ UNCHANGED <<heap, coll, policy, dump, fs, stdout, exp>>

NextRow == CsvRowCall

SpecRow == InitRow /\ [][NextRow]_vars

\* the value stored under key in a dict
ValueOf(row, key) == (CHOOSE e \in { row[i] : i \in DOMAIN row } : e.key = key).value

\* C13: csv_row() returns a mapping with exactly the keys of _csv_row(); a key
\* whose value is None maps to the empty string, every other key keeps its
\* value, and no value of the result is None.
C13_CsvNullNormalization ==
    last.op = "csv_row" =>
        /\ Keys(last.ret) = Keys(last.row)
        /\ Len(last.ret) = Len(last.row)
        /\ \A k \in Keys(last.row) :
              IF ValueOf(last.row, k) = NoneValue
              THEN ValueOf(last.ret, k) = EmptyStr
              ELSE ValueOf(last.ret, k) = ValueOf(last.row, k)
        /\ \A k \in Keys(last.ret) : ValueOf(last.ret, k) # NoneValue

\* C13 witness: a row with a None column and a column holding 0
C13_Witness ==
    /\ last.op = "csv_row"
    /\ \E i, j \in DOMAIN last.row :
          /\ last.row[i].value = NoneValue
          /\ last.row[j].value = [t |-> "int", v |-> "0"]
          /\ last.ret[i].value = EmptyStr

---------------------------------------------------------------------------
(* Mode of the destination file (SpecExport).                                 *)

\* the file name an export that reached its exporter writes to
Destination == Dest(exp.name, exp.fmt)

\* an export to a file, past its first step, in one of the three formats
ToFile == exp.pc # "start" /\ exp.fmt \in Formats /\ exp.name # Dash

\* append was requested and the destination was a regular file before the call
AppendCase == exp.append /\ IsFile(exp.fs0, Destination)

\* the export returned, uncancelled, and the destination was no conflict
ReturnedNoConflict ==
    /\ ToFile /\ exp.pc = "done" /\ ~exp.cancelled
    /\ ~Conflict(exp.fs0, Destination, exp.force, exp.append)

\* the content of the destination after an export that ran through: the old
\* content when appending, else the header for CSV, then the rows written
ContentAfter ==
    (IF AppendCase THEN exp.fs0[Destination].content
     ELSE IF exp.fmt = "csv" THEN <<Header>> ELSE <<>>)
    \o OkRows(exp.items, exp.fmt, 1)

\* the lines of the destination beyond its old content hold no header
NoSecondHeader ==
    /\ Destination \in DOMAIN fs
    /\ LET old == exp.fs0[Destination].content
           now == fs[Destination].content
       IN  /\ Len(now) >= Len(old)
           /\ SubSeq(now, 1, Len(old)) = old
           /\ \A i \in (Len(old) + 1)..Len(now) : now[i] # Header

\* C14 as stated: every non-conflicting export to a file, in any format and
\* for any input, leaves the destination appended to when append was requested
\* and it was a regular file, and created or truncated otherwise, with a CSV
\* header exactly in the second case.
C14_ModeSelection ==
    /\ ReturnedNoConflict =>
          Destination \in DOMAIN fs /\ fs[Destination] = [kind |-> "file", content |-> ContentAfter]
    /\ (ToFile /\ AppendCase) => NoSecondHeader

\* C14 amended: the same for every export that opens its destination, which
\* export_csv does not do for an empty input: then the destination is neither
\* created nor truncated.
C14_ModeSelectionWhenOpened ==
    /\ ReturnedNoConflict =>
          IF exp.fmt = "csv" /\ Len(exp.items) = 0
          THEN fs = exp.fs0
          ELSE /\ exp.app = AppendCase
               /\ Destination \in DOMAIN fs
               /\ fs[Destination] = [kind |-> "file", content |-> ContentAfter]
    /\ (ToFile /\ AppendCase) => NoSecondHeader

\* C14 witness: a CSV export with force and append both set added a row to an
\* existing file
C14_Witness ==
    /\ ReturnedNoConflict /\ AppendCase /\ exp.force
    /\ exp.fmt = "csv" /\ Len(exp.items) > 0 /\ exp.items[1] = "ok"
    /\ fs[Destination].content = <<Line("old", 0), Line("csv", 1)>> \o OkRows(exp.items, "csv", 2)

---------------------------------------------------------------------------
(* The keyed collection as a whole: add, __setitem__, __delitem__, update,    *)
(* __iter__ and the JSON views json_src / json_db.                            *)

\* the keys of the root dict in storage order: self.keys(), self.items()
StoredKeys(root) == [i \in 1..Len(root) |-> root[i].key]

\* __iter__: sorted(self.keys()) when _sorted is set, else self.keys()
Iter(root, sorted) ==
    IF sorted
    THEN SortSeq(StoredKeys(root), LAMBDA a, b : a < b)
    ELSE StoredKeys(root)

\* the class attributes of a record type that sets no export policy
DefaultPolicy == [exDB |-> None, inDB |-> None, exSrc |-> None, inSrc |-> None]

\* json_src (view "src") / json_db (view "db") of a collection: one
\* "key": value item per entry of self.items(), the value being the record's
\* own view (a nested record shows as its reference)
CollJson(h, root, view) ==
    [i \in 1..Len(root) |->
        [key |-> root[i].key,
         value |-> ModelDump(h[root[i].ref], BaseParams(DefaultPolicy, view))]]

---------------------------------------------------------------------------
(* SpecKeyed: three collections X, Y, Z, empty at first.  Objects 1 and 2 are *)
(* records of index 1 that differ in x, with the nested records 3 and 4;      *)
(* object 3 (read as the attribute child of object 1) has index 2.  Object 2  *)
(* is added to X and Y, objects 1 and 3 to Z.                                 *)

Collections == {"X", "Y", "Z"}
EmptyColls == [c \in Collections |-> <<>>]
Addable(c) == IF c = "Z" THEN {1, 3} ELSE {2}

InitKeyed ==
    /\ \E xx \in {[s |-> FALSE, v |-> FALSE], [s |-> TRUE, v |-> FALSE]}, i4 \in IdOpts :
          heap = << Construct("Keyed", [s |-> TRUE, v |-> 1], xx, [s |-> TRUE, v |-> <<3>>]),
                    Construct("Keyed", [s |-> TRUE, v |-> 1], [s |-> TRUE, v |-> TRUE],
                              [s |-> TRUE, v |-> <<4>>]),
                    Construct("Keyed", [s |-> TRUE, v |-> MaxId], [s |-> FALSE, v |-> FALSE],
                              [s |-> FALSE, v |-> NoChild]),
                    Construct("Keyed", i4, [s |-> FALSE, v |-> FALSE],
                              [s |-> FALSE, v |-> NoChild]) >>
    /\ coll = EmptyColls
    /\ last = NoCall
    /\ nops = 0
    /\ policy = NoPolicy
    /\ dump = NoCall
    /\ fs = NoFiles /\ stdout = <<>> /\ exp = NoExport

\* c.add(r): self.root[r.index] = r
AddItem(c, r) ==
    /\ nops < MaxCalls
    /\ coll' = [coll EXCEPT ![c] = Put(@, Index(heap[r]), r)]
    /\ last' = [op |-> "add", self |-> c, key |-> Index(heap[r]), ref |-> r,
                exc |-> FALSE, h0 |-> heap, c0 |-> coll]
    /\ nops' = nops + 1
    /\ UNCHANGED <<heap, policy, dump, fs, stdout, exp>>

\* c[k] = r: self.root[r.index] = r, whatever k is
SetItem(c, k, r) ==
    /\ nops < MaxCalls
    /\ coll' = [coll EXCEPT ![c] = Put(@, Index(heap[r]), r)]
    /\ last' = [op |-> "setitem", self |-> c, key |-> k, ref |-> r,
                exc |-> FALSE, h0 |-> heap, c0 |-> coll]
    /\ nops' = nops + 1
    /\ UNCHANGED <<heap, policy, dump, fs, stdout, exp>>

\* del c[k]: del self.root[k], KeyError when k is not a key
DelItem(c, k) ==
    /\ nops < MaxCalls
    /\ coll' = [coll EXCEPT ![c] = Del(@, k)]
    /\ last' = [op |-> "delitem", self |-> c, key |-> k, ref |-> 0,
                exc |-> (k \notin Keys(coll[c])), h0 |-> heap, c0 |-> coll]
    /\ nops' = nops + 1
    /\ UNCHANGED <<heap, policy, dump, fs, stdout, exp>>

\* (added, updated) = c.update(d, match_index=mi)
UpdateFrom(c, d, mi) ==
    /\ nops < MaxCalls
    /\ \E o \in CollUpdate(heap, coll[c], coll[d], mi) :
          /\ heap' = o.h
          /\ coll' = [coll EXCEPT ![c] = o.root]
          /\ last' = [op |-> "collupdate", self |-> c, new |-> d, mi |-> mi,
                      added |-> o.added, updated |-> o.updated, exc |-> o.exc,
                      h0 |-> heap, c0 |-> coll]
    /\ nops' = nops + 1
    /\ UNCHANGED <<policy, dump, fs, stdout, exp>>

\* c.json_src() / c.json_db() with c._sorted = sorted; iter is list(c)
JsonView(c, view, sorted) ==
    /\ nops < MaxCalls
    /\ dump' = [op |-> "colljson", self |-> c, view |-> view, sorted |-> sorted,
                ret |-> CollJson(heap, coll[c], view), iter |-> Iter(coll[c], sorted)]
    /\ nops' = nops + 1
    /\ UNCHANGED <<heap, coll, last, policy, fs, stdout, exp>>

NextKeyed ==
    \/ \E c \in Collections, r \in 1..4 : r \in Addable(c) /\ AddItem(c, r)
    \/ \E c \in Collections, r \in 1..4, k \in Ids : r \in Addable(c) /\ SetItem(c, k, r)
    \/ \E c \in Collections, k \in Ids : DelItem(c, k)
    \/ \E c \in Collections, d \in Collections, mi \in BOOLEAN : c # d /\ UpdateFrom(c, d, mi)
    \/ \E c \in Collections, view \in {"db", "src"}, sorted \in BOOLEAN : JsonView(c, view, sorted)

SpecKeyed == InitKeyed /\ [][NextKeyed]_vars

\* C15: json_src() and json_db() of a collection emit the members in the
\* collection's iteration order: ascending by key when _sorted is set, storage
\* order otherwise.
C15_JsonViewFollowsIteration ==
    dump.op = "colljson" =>
        [i \in 1..Len(dump.ret) |-> dump.ret[i].key] = dump.iter

\* C16: in every collection every entry is stored under the key equal to the
\* index of its record (so keys are unique per identity), after any sequence
\* of add, c[k] = r, del c[k] and update; c[k] = r stores r under r.index.
C16_KeyIsIndex ==
    /\ \A c \in Collections :
          /\ \A i \in 1..Len(coll[c]) : coll[c][i].key = Index(heap[coll[c][i].ref])
          /\ \A i, j \in 1..Len(coll[c]) : i # j => coll[c][i].key # coll[c][j].key
    /\ last.op = "setitem" =>
          /\ Index(last.h0[last.ref]) \in Keys(coll[last.self])
          /\ Get(coll[last.self], Index(last.h0[last.ref])) = last.ref

\* C17: X.update(Z) changes only X: every other collection (Z and any third
\* one) keeps its keys and its records, and every record it holds keeps the
\* value of every field, nested records included.
C17_UpdateFrame ==
    last.op = "collupdate" =>
        \A c \in Collections \ {last.self} :
            /\ coll[c] = last.c0[c]
            /\ \A i \in 1..Len(coll[c]) :
                  ModelEq(last.h0, coll[c][i].ref, heap, coll[c][i].ref)

---------------------------------------------------------------------------
(* The no-identity condition in record update (SpecMerge).                    *)

\* the last call was a.update(b, match_index=True) and NotImplementedError
\* left it
NoIdentityFailure == last.op = "update" /\ last.mi /\ last.exc

\* C18: when a.update(b, match_index=True) fails with NotImplementedError,
\* raised for a itself or for a nested record reached by the recursive merge,
\* every field of a (and of its nested record) holds the value it held before
\* the call.
C18_NoIdentityIsAtomic ==
    NoIdentityFailure =>
        /\ \A f \in Fields : heap[last.self][f] = last.h0[last.self][f]
        /\ ModelEq(heap, last.self, last.h0, last.self)

===========================================================================
